---------------------------- MODULE Spec2Model ----------------------------
(***************************************************************************)
(* Model of src/src/serverset.rs: the Serverset membership view kept in    *)
(* `members` (an RwLock<HashMap<String, ServersetMember>>), reconciled     *)
(* against a ZooKeeper-style store by update_members / update_member /     *)
(* remove_member on threads spawned by watch().                            *)
(*                                                                         *)
(* One action is one step a thread takes that another thread or the store  *)
(* can observe: a ZooKeeper call together with the local computation that  *)
(* follows it, or one operation on the RwLock.                             *)
(***************************************************************************)
EXTENDS Naturals, FiniteSets, Sequences, TLC

(* ------------------------------ bounds --------------------------------- *)

\* how many times watch() is called on the instance when every call waits
\* for the thread of the call before it to end
MaxWatch == 3

\* how many times watch() is called on the instance when the calls do not
\* wait for each other
MaxOverlap == 2

\* how many times the coordination store changes during a behaviour
MaxChanges == 1

\* how many times the consumer writes through the pub field `members`
MaxWrites == 1

\* the child names that may appear under the serverset znode
Ids == {"a", "b"}

Threads == 1..MaxWatch

(* ------------------------ records and payloads ------------------------- *)

\* struct ServersetMember: the endpoints are abstracted to one number `ep`
Member(s, e) == [status |-> s, ep |-> e]

ServersetMember == {Member("ALIVE", 1), Member("ALIVE", 2), Member("DEAD", 1)}

\* the bytes stored in a member znode
BadUtf8 == [utf8 |-> FALSE, wellformed |-> FALSE, status |-> "", ep |-> 0]

BadJson == [utf8 |-> TRUE, wellformed |-> FALSE, status |-> "", ep |-> 0]

Json(m) == [utf8 |-> TRUE, wellformed |-> TRUE, status |-> m.status, ep |-> m.ep]

Payloads == {BadUtf8, BadJson} \cup {Json(m) : m \in ServersetMember}

\* String::from_utf8(node_data.0): Some(text) as {text}, an error as {}
from_utf8(bytes) == IF bytes.utf8 THEN {[wellformed |-> bytes.wellformed,
                                         status |-> bytes.status,
                                         ep |-> bytes.ep]}
                    ELSE {}

\* json::decode(&member_json): Some(member) as {member}, an error as {}
json_decode(text) == IF text.wellformed THEN {Member(text.status, text.ep)} ELSE {}

\* a member znode as the store holds it: missing, unreadable, or readable
NoNode == [exists |-> FALSE, readable |-> FALSE, data |-> BadUtf8]

NoData == [exists |-> TRUE, readable |-> FALSE, data |-> BadUtf8]

Node(p) == [exists |-> TRUE, readable |-> TRUE, data |-> p]

ZNodes == {NoNode, NoData} \cup {Node(p) : p \in Payloads}

\* the serverset znode: present and listable, missing, or present with a
\* failing get_children
RootStates == {"OK", "NONODE", "NOLIST"}

(* ------------------------------- state --------------------------------- *)

VARIABLES
  members,                \* Serverset.members: the HashMap inside the RwLock
  lock,                   \* the RwLock: [readers: set of threads, writer: thread or 0]
  zkRoot,                 \* the store: state of config.serverset_znode
  zkNodes,                \* the store: state of every child znode
  changes,                \* number of store changes so far
  pc,                     \* where each spawned thread is
  serverset_children,     \* update_members: the Vec returned by get_children
  idx,                    \* update_members: position of the for loop in it
  current_member_znodes,  \* update_members: the HashSet of children seen
  member_opt,             \* update_member: the decoded member, {} for None
  old_member_znode,       \* update_members: the key the removal loop is at
  before,                 \* history: members when the cycle started
  outcome,                \* history: what this cycle found at each child
  epoch,                  \* history: `changes` when the cycle started
  result,                 \* history: how the cycle ended
  boot,                   \* Serverset::new: result of connect, state of the Serverset
  reader,                 \* where the consumer reading `members` is
  view,                   \* the snapshot the consumer read last
  writes                  \* number of writes of the consumer so far

vars == <<members, lock, zkRoot, zkNodes, changes, pc, serverset_children, idx,
          current_member_znodes, member_opt, old_member_znode, before, outcome,
          epoch, result, boot, reader, view, writes>>

api == <<boot, reader, view, writes>>

history == <<before, outcome, epoch, result>>

zk == <<zkRoot, zkNodes, changes>>

locals == <<serverset_children, idx, current_member_znodes, member_opt,
            old_member_znode>>

EmptyMap == [k \in {} |-> Member("ALIVE", 1)]

NoOutcome == [k \in {} |-> [how |-> "ok", member |-> {}]]

\* the history f with what was found at child c added
Noted(f, c, found) == [x \in DOMAIN f \cup {c} |-> IF x = c THEN found ELSE f[x]]

\* the consumer of the Serverset, as a holder of guards of the RwLock
Consumer == 0

\* the consumer has read nothing yet
NoView == EmptyMap

\* Serverset::new: the connection succeeded, members is an empty HashMap and
\* no thread has been spawned.  The store holds anything.
Init ==
  /\ boot = [connect |-> "ok", serverset |-> "ready"]
  /\ reader = "idle"
  /\ view = NoView
  /\ writes = 0
  /\ members = EmptyMap
  /\ lock = [readers |-> {}, writer |-> 0]
  /\ zkRoot \in RootStates
  /\ zkNodes \in [Ids -> ZNodes]
  /\ changes = 0
  /\ pc = [t \in Threads |-> "unspawned"]
  /\ serverset_children = [t \in Threads |-> <<>>]
  /\ idx = [t \in Threads |-> 0]
  /\ current_member_znodes = [t \in Threads |-> {}]
  /\ member_opt = [t \in Threads |-> {}]
  /\ old_member_znode = [t \in Threads |-> {}]
  /\ before = [t \in Threads |-> EmptyMap]
  /\ outcome = [t \in Threads |-> NoOutcome]
  /\ epoch = [t \in Threads |-> 0]
  /\ result = [t \in Threads |-> "none"]


(* ------------------------- the store's answers ------------------------- *)

\* zk_client.exists(znode, false) mapped to a bool: Ok(_) => true, _ => false
znode_exists(node) == node.exists

\* the same for the serverset znode itself
root_exists == zkRoot # "NONODE"

\* zk_client.get_children: the names of the children the store holds now
Listing == {c \in Ids : zkNodes[c].exists}

\* every order in which get_children may return the set S
Orders(S) == {s \in [1..Cardinality(S) -> S] : \A c \in S : \E i \in DOMAIN s : s[i] = c}

\* zk_client.get_data + String::from_utf8 + json::decode, as update_member
\* chains them: member_opt is Some(member) as {member} and None as {}, and
\* `how` names the arm that was taken
decode_member(node) ==
  IF ~node.readable THEN [how |-> "nodata", member |-> {}]
  ELSE LET member_json_opt == from_utf8(node.data)
       IN  IF member_json_opt = {} THEN [how |-> "badutf8", member |-> {}]
           ELSE LET member == json_decode(CHOOSE text \in member_json_opt : TRUE)
                IN  IF member = {} THEN [how |-> "badjson", member |-> {}]
                    ELSE [how |-> "ok", member |-> member]

(* --------------------------- the HashMap ------------------------------- *)

\* a plausible slip: an entry already present is dropped instead of replaced
insert_toggles(m, k, v) ==
  IF k \in DOMAIN m THEN [x \in DOMAIN m \ {k} |-> m[x]]
  ELSE [x \in DOMAIN m \cup {k} |-> IF x = k THEN v ELSE m[x]]

\* HashMap::insert: the value replaces whatever the key held
insert(m, k, v) == [x \in DOMAIN m \cup {k} |-> IF x = k THEN v ELSE m[x]]

\* HashMap::remove
remove(m, k) == [x \in DOMAIN m \ {k} |-> m[x]]

\* a plausible slip: every decoded member is taken as alive
is_alive_any(member) == TRUE

\* the match on member.status.as_ref() in update_member
is_alive(member) == member.status = "ALIVE"

(* ---------------------------- the RwLock ------------------------------- *)

\* a plausible slip: a read that does not wait for the writer
can_read_always == TRUE

\* RwLock::read returns once no writer holds the lock
can_read == lock.writer = 0

\* RwLock::write returns once nobody holds the lock
can_write == lock.writer = 0 /\ lock.readers = {}

(* ------------------------------ watch ---------------------------------- *)

\* the i-th call of watch(): thread::spawn of a thread that runs
\* update_members once and then sleeps once
Watch ==
  \E t \in Threads :
    /\ boot.serverset = "ready"
    /\ pc[t] = "unspawned"
    /\ \A u \in Threads : u < t => pc[u] # "unspawned"
    /\ pc' = [pc EXCEPT ![t] = "update_members"]
    /\ UNCHANGED <<members, lock, zk, locals, history, api>>

\* a reconciliation cycle is in flight on thread t
Running(t) == pc[t] \notin {"unspawned", "sleep", "done", "panicked"}

\* thread t has been spawned and has not ended
Alive(t) == pc[t] \notin {"unspawned", "done", "panicked"}

(* -------------------------- update_members ----------------------------- *)

\* a plausible slip: a cycle that cannot read the store clears the view
SkipCycleClears(t) ==
  /\ pc' = [pc EXCEPT ![t] = "sleep"]
  /\ result' = [result EXCEPT ![t] = "skipped"]
  /\ members' = EmptyMap

\* the early return of update_members (root missing) and the Err arm of
\* get_children: nothing is written
SkipCycle(t) ==
  /\ pc' = [pc EXCEPT ![t] = "sleep"]
  /\ result' = [result EXCEPT ![t] = "skipped"]
  /\ members' = members

\* the head of `for current_member_znode in serverset_children.iter()` at
\* position i: the child is recorded as seen and update_member is entered,
\* or the loop is over and the removal loop follows
LoopAt(t, kids, i, seen) ==
  /\ idx' = [idx EXCEPT ![t] = i]
  /\ IF i <= Len(kids)
       THEN /\ current_member_znodes' =
                 [current_member_znodes EXCEPT ![t] = seen \cup {kids[i]}]
            /\ pc' = [pc EXCEPT ![t] = "update_member"]
       ELSE /\ current_member_znodes' = [current_member_znodes EXCEPT ![t] = seen]
            /\ pc' = [pc EXCEPT ![t] = "scan"]

\* update_members up to the existence check of the serverset znode
UpdateMembers(t) ==
  /\ pc[t] = "update_members"
  /\ UNCHANGED api
  /\ before' = [before EXCEPT ![t] = members]
  /\ epoch' = [epoch EXCEPT ![t] = changes]
  /\ IF root_exists
       THEN /\ pc' = [pc EXCEPT ![t] = "get_children"]
            /\ UNCHANGED <<members, result>>
       ELSE SkipCycle(t)
  /\ UNCHANGED <<lock, zk, locals, outcome>>

\* zk_client.get_children and, on Ok, the entry into the for loop
GetChildren(t) ==
  /\ pc[t] = "get_children"
  /\ UNCHANGED api
  /\ IF zkRoot = "OK"
       THEN /\ \E kids \in Orders(Listing) :
                 /\ serverset_children' = [serverset_children EXCEPT ![t] = kids]
                 /\ LoopAt(t, kids, 1, {})
            /\ UNCHANGED <<members, result>>
       ELSE /\ SkipCycle(t)
            /\ UNCHANGED <<serverset_children, idx, current_member_znodes>>
  /\ UNCHANGED <<lock, zk, member_opt, old_member_znode, before, outcome, epoch>>

(* --------------------------- update_member ----------------------------- *)

\* the child update_member is working on
Child(t) == serverset_children[t][idx[t]]

\* a plausible slip: a child that cannot be used is dropped from the view
SkipChildRemoves(t) ==
  /\ members' = remove(members, Child(t))
  /\ LoopAt(t, serverset_children[t], idx[t] + 1, current_member_znodes[t])

\* a plausible slip: a child that cannot be used ends the whole for loop
SkipChildBreaks(t) ==
  /\ members' = members
  /\ idx' = [idx EXCEPT ![t] = Len(serverset_children[t]) + 1]
  /\ pc' = [pc EXCEPT ![t] = "scan"]
  /\ UNCHANGED current_member_znodes

\* update_member returns without an insert (`return`, or the None / `_` arms
\* of its last match) and the for loop goes on with the next child
SkipChild(t) ==
  /\ members' = members
  /\ LoopAt(t, serverset_children[t], idx[t] + 1, current_member_znodes[t])

\* update_member up to its existence check of the child's znode
UpdateMember(t) ==
  /\ pc[t] = "update_member"
  /\ UNCHANGED api
  /\ IF znode_exists(zkNodes[Child(t)])
       THEN /\ pc' = [pc EXCEPT ![t] = "get_data"]
            /\ UNCHANGED <<members, idx, current_member_znodes, outcome>>
       ELSE /\ SkipChild(t)
            /\ outcome' = [outcome EXCEPT ![t] =
                             Noted(@, Child(t), [how |-> "noexist", member |-> {}])]
  /\ UNCHANGED <<lock, zk, serverset_children, member_opt, old_member_znode,
                 before, epoch, result>>

\* get_data, from_utf8, json::decode and the match on the status
GetData(t) ==
  /\ pc[t] = "get_data"
  /\ UNCHANGED api
  /\ LET got == decode_member(zkNodes[Child(t)])
     IN  /\ outcome' = [outcome EXCEPT ![t] = Noted(@, Child(t), got)]
         /\ IF got.member # {} /\ is_alive(CHOOSE m \in got.member : TRUE)
              THEN /\ member_opt' = [member_opt EXCEPT ![t] = got.member]
                   /\ pc' = [pc EXCEPT ![t] = "write"]
                   /\ UNCHANGED <<members, idx, current_member_znodes>>
              ELSE /\ SkipChild(t)
                   /\ UNCHANGED member_opt
  /\ UNCHANGED <<lock, zk, serverset_children, old_member_znode, before, epoch,
                 result>>

\* self.members.write().unwrap() of the insert: the guard is obtained
WriteLock(t) ==
  /\ pc[t] = "write"
  /\ UNCHANGED api
  /\ can_write
  /\ lock' = [lock EXCEPT !.writer = t]
  /\ pc' = [pc EXCEPT ![t] = "insert"]
  /\ UNCHANGED <<members, zk, locals, history>>

\* .insert(member_znode.clone(), member), the guard is dropped and the for
\* loop goes on with the next child
Insert(t) ==
  /\ pc[t] = "insert"
  /\ UNCHANGED api
  /\ members' = insert(members, Child(t), CHOOSE m \in member_opt[t] : TRUE)
  /\ lock' = [lock EXCEPT !.writer = 0]
  /\ member_opt' = [member_opt EXCEPT ![t] = {}]
  /\ LoopAt(t, serverset_children[t], idx[t] + 1, current_member_znodes[t])
  /\ UNCHANGED <<zk, serverset_children, old_member_znode, history>>

(* --------------------------- removal loop ------------------------------ *)

\* self.members.read().unwrap() in the head of the removal loop: the read
\* guard is a temporary of the for expression and lives until the loop ends
ScanLock(t) ==
  /\ pc[t] = "scan"
  /\ UNCHANGED api
  /\ can_read
  /\ lock' = [lock EXCEPT !.readers = @ \cup {t}]
  /\ pc' = [pc EXCEPT ![t] = "keys"]
  /\ UNCHANGED <<members, zk, locals, history>>

\* the iteration over .keys(): the first key that is not among the children
\* seen is handed to remove_member (a HashMap iterates in any order); with no
\* such key the loop ends, the guard is dropped and update_members returns
Keys(t) ==
  /\ pc[t] = "keys"
  /\ UNCHANGED api
  /\ LET dropped == DOMAIN members \ current_member_znodes[t]
     IN  IF dropped = {}
           THEN /\ lock' = [lock EXCEPT !.readers = @ \ {t}]
                /\ pc' = [pc EXCEPT ![t] = "sleep"]
                /\ result' = [result EXCEPT ![t] = "completed"]
                /\ UNCHANGED old_member_znode
           ELSE /\ \E k \in dropped :
                     old_member_znode' = [old_member_znode EXCEPT ![t] = {k}]
                /\ pc' = [pc EXCEPT ![t] = "remove_member"]
                /\ UNCHANGED <<lock, result>>
  /\ UNCHANGED <<members, zk, serverset_children, idx, current_member_znodes,
                 member_opt, before, outcome, epoch>>

\* remove_member: self.members.write().unwrap().remove(member_znode).
\* Asking for the write guard while this thread holds a read guard of the
\* same RwLock either blocks for ever or panics ("rwlock write lock would
\* result in deadlock"), depending on the platform's lock; the panic unwinds
\* the thread and drops its read guard.  Without a guard of its own the
\* thread waits for the lock and removes the key.
RemoveMember(t) ==
  /\ pc[t] = "remove_member"
  /\ UNCHANGED api
  /\ IF t \in lock.readers
       THEN /\ \/ /\ pc' = [pc EXCEPT ![t] = "deadlock"]
                  /\ UNCHANGED <<lock, result>>
               \/ /\ pc' = [pc EXCEPT ![t] = "panicked"]
                  /\ lock' = [lock EXCEPT !.readers = @ \ {t}]
                  /\ result' = [result EXCEPT ![t] = "panicked"]
            /\ UNCHANGED members
       ELSE /\ can_write
            /\ members' = remove(members, CHOOSE k \in old_member_znode[t] : TRUE)
            /\ pc' = [pc EXCEPT ![t] = "keys"]
            /\ UNCHANGED <<lock, result>>
  /\ UNCHANGED <<zk, locals, before, outcome, epoch>>

\* thread::sleep_ms(zookeeper_poll_ms), after which the closure returns and
\* the thread ends; its locals are gone
Sleep(t) ==
  /\ pc[t] = "sleep"
  /\ UNCHANGED api
  /\ pc' = [pc EXCEPT ![t] = "done"]
  /\ serverset_children' = [serverset_children EXCEPT ![t] = <<>>]
  /\ idx' = [idx EXCEPT ![t] = 0]
  /\ current_member_znodes' = [current_member_znodes EXCEPT ![t] = {}]
  /\ before' = [before EXCEPT ![t] = EmptyMap]
  /\ outcome' = [outcome EXCEPT ![t] = NoOutcome]
  /\ UNCHANGED <<members, lock, zk, member_opt, old_member_znode, epoch, result>>

(* ------------------------------ the store ------------------------------ *)

\* the coordination store changes: one znode is created, deleted, rewritten
\* or made unreadable, or the serverset znode changes state
StoreChange ==
  /\ changes < MaxChanges
  /\ UNCHANGED api
  /\ changes' = changes + 1
  /\ \/ /\ \E r \in RootStates \ {zkRoot} : zkRoot' = r
        /\ UNCHANGED zkNodes
     \/ /\ \E c \in Ids : \E n \in ZNodes \ {zkNodes[c]} :
             zkNodes' = [zkNodes EXCEPT ![c] = n]
        /\ UNCHANGED zkRoot
  /\ UNCHANGED <<members, lock, pc, locals, history>>

(* --------------------------- specifications ---------------------------- *)

\* one step of the thread spawned by the t-th call of watch()
Step(t) ==
  \/ UpdateMembers(t)
  \/ GetChildren(t)
  \/ UpdateMember(t)
  \/ GetData(t)
  \/ WriteLock(t)
  \/ Insert(t)
  \/ ScanLock(t)
  \/ Keys(t)
  \/ RemoveMember(t)
  \/ Sleep(t)

\* watch() may be called while threads spawned by earlier calls still run
WatchOverlapping ==
  /\ Cardinality({u \in Threads : pc[u] # "unspawned"}) < MaxOverlap
  /\ Watch

\* the instance with overlapping calls of watch()
Next ==
  \/ WatchOverlapping
  \/ \E t \in Threads : Step(t)
  \/ StoreChange

Spec == Init /\ [][Next]_vars

\* the caller calls watch() again only after the earlier thread has ended
WatchAgain ==
  /\ \A u \in Threads : ~Alive(u)
  /\ Watch

\* the instance with one thread of watch() at a time
SeqNext ==
  \/ WatchAgain
  \/ \E t \in Threads : Step(t)
  \/ StoreChange

SeqSpec == Init /\ [][SeqNext]_vars

\* the scheduler lets every thread that can take a step take it
FairSeqSpec == SeqSpec /\ \A t \in Threads : WF_vars(Step(t))

(* ----------------------------- the consumer ---------------------------- *)

\* the consumer reads the public field: members.read().unwrap(), the read
\* guard is obtained
ConsumerLock ==
  /\ boot.serverset = "ready"
  /\ reader = "idle"
  /\ can_read
  /\ lock' = [lock EXCEPT !.readers = @ \cup {Consumer}]
  /\ reader' = "reading"
  /\ UNCHANGED <<members, zk, pc, locals, history, boot, view, writes>>

\* the consumer takes what the map holds and drops the guard
ConsumerRead ==
  /\ reader = "reading"
  /\ view' = members
  /\ lock' = [lock EXCEPT !.readers = @ \ {Consumer}]
  /\ reader' = "idle"
  /\ UNCHANGED <<members, zk, pc, locals, history, boot, writes>>

\* `members` is a pub field, so the consumer can also ask the RwLock for the
\* write guard: members.write().unwrap().insert(k, v) or .remove(k)
ConsumerWrite ==
  /\ boot.serverset = "ready"
  /\ reader = "idle"
  /\ writes < MaxWrites
  /\ can_write
  /\ writes' = writes + 1
  /\ \/ \E k \in Ids : \E v \in ServersetMember : members' = insert(members, k, v)
     \/ \E k \in DOMAIN members : members' = remove(members, k)
  /\ UNCHANGED <<lock, zk, pc, locals, history, boot, reader, view>>

\* the instance with one thread of watch() at a time and a consumer that reads
ReadNext ==
  \/ SeqNext
  \/ ConsumerLock
  \/ ConsumerRead

ReadSpec == Init /\ [][ReadNext]_vars

\* the instance with one thread of watch() at a time and a consumer that
\* writes
ApiNext ==
  \/ SeqNext
  \/ ConsumerWrite

ApiSpec == Init /\ [][ApiNext]_vars

(* ------------------------------ bootstrap ------------------------------ *)

\* a plausible slip: a failed connection still yields a Serverset
NewDegraded ==
  /\ boot.serverset = "unbuilt"
  /\ \E answer \in {"ok", "err"} : boot' = [connect |-> answer, serverset |-> "ready"]
  /\ members' = EmptyMap
  /\ lock' = [readers |-> {}, writer |-> 0]
  /\ UNCHANGED <<zk, pc, locals, history, reader, view, writes>>

\* Serverset::new: ZooKeeper::connect either fails, and new panics, or
\* succeeds, and the Serverset is built around an empty HashMap
New ==
  /\ boot.serverset = "unbuilt"
  /\ \/ /\ boot' = [connect |-> "err", serverset |-> "panic"]
        /\ UNCHANGED <<members, lock>>
     \/ /\ boot' = [connect |-> "ok", serverset |-> "ready"]
        /\ members' = EmptyMap
        /\ lock' = [readers |-> {}, writer |-> 0]
  /\ UNCHANGED <<zk, pc, locals, history, reader, view, writes>>

\* before Serverset::new returns there is no map: `members` stands for
\* nothing then, and the model lets it be any map
Unbuilt == UNION {[S -> ServersetMember] : S \in SUBSET Ids}

\* the process before Serverset::new has been called
BootInit ==
  /\ boot = [connect |-> "none", serverset |-> "unbuilt"]
  /\ reader = "idle"
  /\ view = NoView
  /\ writes = 0
  /\ members \in Unbuilt
  /\ lock = [readers |-> {}, writer |-> 0]
  /\ zkRoot \in RootStates
  /\ zkNodes \in [Ids -> ZNodes]
  /\ changes = 0
  /\ pc = [t \in Threads |-> "unspawned"]
  /\ serverset_children = [t \in Threads |-> <<>>]
  /\ idx = [t \in Threads |-> 0]
  /\ current_member_znodes = [t \in Threads |-> {}]
  /\ member_opt = [t \in Threads |-> {}]
  /\ old_member_znode = [t \in Threads |-> {}]
  /\ before = [t \in Threads |-> EmptyMap]
  /\ outcome = [t \in Threads |-> NoOutcome]
  /\ epoch = [t \in Threads |-> 0]
  /\ result = [t \in Threads |-> "none"]

\* the process from before Serverset::new on
BootNext ==
  \/ New
  \/ ReadNext

BootSpec == BootInit /\ [][BootNext]_vars

TypeOK ==
  /\ DOMAIN members \subseteq Ids
  /\ \A k \in DOMAIN members : members[k] \in ServersetMember
  /\ lock.writer \in Threads \cup {0}
  /\ lock.readers \subseteq Threads \cup {Consumer}
  /\ reader \in {"idle", "reading"}
  /\ \A t \in Threads : idx[t] \in 0..(Cardinality(Ids) + 1)


(* ------------------------ vocabulary of the claims --------------------- *)

Range(s) == {s[i] : i \in DOMAIN s}

\* thread t's cycle listed the children and finished its removal loop
Completed(t) == pc[t] = "sleep" /\ result[t] = "completed"

\* thread t's cycle ended at the root check or at a failed listing
Skipped(t) == pc[t] = "sleep" /\ result[t] = "skipped"

\* watch() has not been called again since it spawned thread t
Latest(t) == \A u \in Threads : u > t => pc[u] = "unspawned"

\* thread t's cycle ended in a panic and no later cycle has started
Panicked(t) == pc[t] = "panicked" /\ Latest(t)

\* thread t's cycle listed the children, went through all of them and is at
\* or past its removal loop
PastChildren(t) ==
  \/ pc[t] \in {"scan", "keys", "remove_member", "deadlock"}
  \/ Panicked(t)
  \/ Completed(t)

\* thread t's cycle listed the children and takes no further step: it
\* returned, it is blocked for ever, or its thread panicked
ListedAndOver(t) == pc[t] = "deadlock" \/ Panicked(t) \/ Completed(t)

\* the children whose znode, in thread t's cycle, existed, was read, decoded
\* and carried the status "ALIVE"
AliveSeen(t) ==
  {c \in DOMAIN outcome[t] :
     /\ outcome[t][c].how = "ok"
     /\ \A m \in outcome[t][c].member : m.status = "ALIVE"}

\* the member thread t's cycle decoded at child c
DecodedAt(t, c) == CHOOSE m \in outcome[t][c].member : TRUE

\* the children at which thread t's cycle failed to fetch or decode the data
FetchOrDecodeFailed(t) ==
  {c \in DOMAIN outcome[t] : outcome[t][c].how \in {"nodata", "badutf8", "badjson"}}

\* the children thread t's cycle decoded with a status other than "ALIVE"
NotAliveSeen(t) ==
  {c \in DOMAIN outcome[t] : outcome[t][c].how = "ok" /\ c \notin AliveSeen(t)}

\* the store answers every call and every payload there is decodes
Healthy ==
  /\ zkRoot = "OK"
  /\ \A c \in Ids : zkNodes[c] # NoData

\* what the store says the view should be: every child whose payload decodes
\* with status "ALIVE", mapped to the decoded member
AliveView ==
  LET alive == {c \in Listing :
                  /\ decode_member(zkNodes[c]).how = "ok"
                  /\ \A m \in decode_member(zkNodes[c]).member : m.status = "ALIVE"}
  IN  [c \in alive |-> CHOOSE m \in decode_member(zkNodes[c]).member : TRUE]

(* -------------------------------- C1 ----------------------------------- *)

\* C1 (as claimed): once a cycle whose listing succeeded is over, every
\* identifier that was in the snapshot when the cycle started and that the
\* listing omitted is absent from the snapshot.
C1_RemovalCorrect ==
  \A t \in Threads : \A x \in Ids :
    (ListedAndOver(t) /\ x \in DOMAIN before[t] /\ x \notin current_member_znodes[t])
      => x \notin DOMAIN members

(* -------------------------------- C2 ----------------------------------- *)

\* C2: a cycle that ends because the serverset znode is missing or because
\* get_children fails leaves the snapshot exactly as it was when the cycle
\* started, key for key and record for record.
C2_SkipKeepsSnapshot ==
  \A t \in Threads : Skipped(t) => members = before[t]

\* a skipped cycle that started from a snapshot holding entries
C2_Witness ==
  \E t \in Threads : Skipped(t) /\ DOMAIN before[t] # {}

(* -------------------------------- C3 ----------------------------------- *)

\* C3 (as claimed): after a completed cycle the snapshot's keys are exactly
\* the identifiers that decoded with status "ALIVE" in that cycle.
C3_ExactlyAlive ==
  \A t \in Threads : Completed(t) => DOMAIN members = AliveSeen(t)

\* the entries thread t's cycle found in the snapshot, saw in the listing and
\* could not decode as alive
Stale(t) == (DOMAIN before[t] \cap current_member_znodes[t]) \ AliveSeen(t)

\* C3 (amended): after a completed cycle the snapshot's keys are exactly the
\* identifiers that decoded with status "ALIVE" in that cycle together with
\* the identifiers that were in the snapshot before the cycle, were returned
\* by its listing, and whose znode was missing, unreadable, undecodable or
\* not "ALIVE" in that cycle.
C3_AliveAndStale ==
  \A t \in Threads : Completed(t) => DOMAIN members = AliveSeen(t) \cup Stale(t)

\* a completed cycle that inserted one child and kept a stale one
C3_Witness ==
  \E t \in Threads : Completed(t) /\ AliveSeen(t) # {} /\ Stale(t) # {}

(* -------------------------------- C4 ----------------------------------- *)

\* C4 (as claimed): an identifier of the snapshot is gone after the first
\* completed cycle in which its znode is missing, unreadable, undecodable or
\* not "ALIVE", also when the listing still returns it.
C4_DeletedWhenNotAlive ==
  \A t \in Threads : \A x \in Ids :
    (Completed(t) /\ x \in DOMAIN before[t] /\ x \notin AliveSeen(t))
      => x \notin DOMAIN members

\* C4 (amended): an identifier of the snapshot that the cycle's listing
\* returns and whose znode is missing, unreadable, undecodable or not "ALIVE"
\* in that cycle is not deleted by the cycle: once the cycle is over it is
\* still in the snapshot with the record it had before.
C4_KeptWhenListed ==
  \A t \in Threads : \A x \in Ids :
    (ListedAndOver(t) /\ x \in Stale(t))
      => (x \in DOMAIN members /\ members[x] = before[t][x])

\* a cycle that is over and met a listed child of the snapshot it could not
\* decode as alive
C4_Witness ==
  \E t \in Threads : Completed(t) /\ Stale(t) # {}

(* -------------------------------- C5 ----------------------------------- *)

\* C5 (as claimed): after a completed cycle the snapshot's keys are among the
\* listed children, minus those whose fetch or decode failed, minus those
\* that were not "ALIVE" and not in the snapshot before.
C5_SubsetOfUsable ==
  \A t \in Threads :
    Completed(t) =>
      DOMAIN members \subseteq
        (current_member_znodes[t] \ FetchOrDecodeFailed(t))
          \ (NotAliveSeen(t) \ DOMAIN before[t])

\* C5 (amended): after a completed cycle the snapshot's keys are among the
\* listed children, minus every listed child that was not in the snapshot
\* before the cycle and whose existence check, fetch or decode failed or
\* whose status was not "ALIVE" in that cycle.
C5_SubsetAmended ==
  \A t \in Threads :
    Completed(t) =>
      DOMAIN members \subseteq
        current_member_znodes[t]
          \ ((current_member_znodes[t] \ AliveSeen(t)) \ DOMAIN before[t])

\* a completed cycle in which a child of the snapshot failed to fetch or
\* decode and a child that was not in the snapshot was turned away
C5_Witness ==
  \E t \in Threads :
    /\ Completed(t)
    /\ FetchOrDecodeFailed(t) \cap DOMAIN before[t] # {}
    /\ (current_member_znodes[t] \ AliveSeen(t)) \ DOMAIN before[t] # {}

(* -------------------------------- C6 ----------------------------------- *)

\* cycle u is the cycle after cycle t, both completed, and the store has not
\* changed since cycle t started
TwiceUnchanged(t, u) ==
  /\ u = t + 1
  /\ result[t] = "completed"
  /\ Completed(u)
  /\ epoch[t] = changes

\* C6: when a cycle runs to completion and the next cycle runs with the store
\* unchanged since the first one started, the second cycle finds nothing to
\* remove and, once completed, leaves the snapshot the first one left.
C6_Idempotent ==
  \A t, u \in Threads :
    /\ TwiceUnchanged(t, u) => members = before[u]
    /\ (u = t + 1 /\ result[t] = "completed" /\ epoch[t] = changes)
         => pc[u] \notin {"remove_member", "deadlock", "panicked"}

\* two such cycles, the first of which started from a snapshot left by an
\* earlier cycle and carried a stale entry through
C6_Witness ==
  \E t, u \in Threads :
    /\ TwiceUnchanged(t, u)
    /\ AliveSeen(u) # {}
    /\ DOMAIN members \ AliveSeen(u) # {}

(* -------------------------------- C7 ----------------------------------- *)

\* C7: once a cycle whose listing succeeded has gone through the children,
\* it has visited every listed child, and every child that decoded with
\* status "ALIVE" is mapped in the snapshot to the member decoded in this
\* cycle, however many other children failed.
C7_Isolation ==
  \A t \in Threads :
    PastChildren(t) =>
      /\ current_member_znodes[t] = Range(serverset_children[t])
      /\ DOMAIN outcome[t] = Range(serverset_children[t])
      /\ \A c \in AliveSeen(t) :
           c \in DOMAIN members /\ members[c] = DecodedAt(t, c)

\* a completed cycle in which one child failed and another child's record
\* replaced the one the snapshot held
C7_Witness ==
  \E t \in Threads :
    /\ Completed(t)
    /\ \E c \in current_member_znodes[t] : outcome[t][c].how # "ok"
    /\ \E c \in AliveSeen(t) \cap DOMAIN before[t] : before[t][c] # members[c]

(* -------------------------------- C8 ----------------------------------- *)

\* C8 (as claimed): the Poller has no terminal state: a thread started by
\* watch() never ends.
C8_NoTerminalState ==
  \A t \in Threads : pc[t] # "done"

(* -------------------------------- C9 ----------------------------------- *)

\* C9 (as claimed): when a cycle starts after the store has stopped changing
\* and while it answers every call, the snapshot becomes the store's alive
\* view and stays equal to it.
C9_EventuallyConsistent ==
  \A t \in Threads :
    (pc[t] = "update_members" /\ changes = MaxChanges /\ Healthy)
      ~> [](members = AliveView)

(* -------------------------------- C10 ---------------------------------- *)

\* C10 (as claimed): at most one reconciliation cycle is in flight at any
\* time, also when watch() has been called more than once.
C10_OneCycleInFlight ==
  Cardinality({t \in Threads : Running(t)}) <= 1

(* -------------------------------- C11 ---------------------------------- *)

\* C11 (as claimed): a cycle never ends up blocked for ever on the RwLock of
\* `members`, nor is it cut short: no thread is stuck in, or has panicked
\* out of, the removal step.
C11_RunsToCompletion ==
  \A t \in Threads : pc[t] \notin {"deadlock", "panicked"}

(* -------------------------------- C12 ---------------------------------- *)

\* thread t's cycle started from an empty snapshot and every child it has
\* visited existed, was read and decoded
CleanFirstCycle(t) ==
  /\ before[t] = EmptyMap
  /\ \A c \in DOMAIN outcome[t] : outcome[t][c].how = "ok"

\* the mapping from each child thread t's cycle decoded as "ALIVE" to the
\* member it decoded
AliveDecoded(t) == [c \in AliveSeen(t) |-> DecodedAt(t, c)]

\* C12: a cycle that starts from an empty snapshot and finds every listed
\* child present, readable and decodable has nothing to remove, completes,
\* and leaves exactly the mapping from each listed child with status "ALIVE"
\* to its decoded member; a listed child with any other status is absent.
C12_FirstCycleExact ==
  \A t \in Threads :
    (PastChildren(t) /\ Latest(t) /\ CleanFirstCycle(t))
      => /\ pc[t] \notin {"remove_member", "deadlock", "panicked"}
         /\ DOMAIN outcome[t] = Range(serverset_children[t])
         /\ members = AliveDecoded(t)
         /\ NotAliveSeen(t) \cap DOMAIN members = {}

\* the scenario of the specification: one child ALIVE, one child DEAD
C12_Witness ==
  \E t \in Threads :
    /\ Completed(t)
    /\ CleanFirstCycle(t)
    /\ AliveSeen(t) # {}
    /\ NotAliveSeen(t) # {}

(* -------------------------------- C13 ---------------------------------- *)

\* C13: the snapshot is written only by the Reconciler: every step that
\* changes the snapshot is the insert of a running reconciliation cycle, and
\* no step of a consumer changes it.
C13_OnlyReconcilerWrites ==
  [][members' # members =>
       \E t \in Threads : pc[t] = "insert" /\ pc'[t] # "insert"]_vars

(* -------------------------------- C14 ---------------------------------- *)

\* C14: a failed connection ends construction in a panic; unless the
\* Serverset has been built no cycle has started and no consumer holds or
\* has read the snapshot; a Serverset just built has an empty snapshot.
C14_Bootstrap ==
  /\ boot.connect = "err" => boot.serverset = "panic"
  /\ boot.serverset = "ready" => boot.connect = "ok"
  /\ boot.serverset # "ready" =>
       /\ \A t \in Threads : pc[t] = "unspawned"
       /\ reader = "idle"
       /\ Consumer \notin lock.readers
       /\ view = NoView
  /\ (boot.serverset = "ready" /\ \A t \in Threads : pc[t] = "unspawned")
       => members = EmptyMap

\* the connection has failed and Serverset::new has panicked
C14_Witness ==
  /\ boot.connect = "err"
  /\ boot.serverset = "panic"

(* -------------------------------- C15 ---------------------------------- *)

\* the listed children thread t's cycle did not decode as "ALIVE"
Unusable(t) == DOMAIN outcome[t] \ AliveSeen(t)

\* C15: once a cycle whose listing succeeded is over, every listed child
\* whose znode failed the existence check, the fetch or the decoding, or
\* whose status was not "ALIVE", has the entry it had when the cycle
\* started: absent if it was absent, the same record if it was present.
C15_SkipPolicy ==
  \A t \in Threads : \A c \in Ids :
    (ListedAndOver(t) /\ c \in Unusable(t))
      => /\ (c \in DOMAIN members) = (c \in DOMAIN before[t])
         /\ c \in DOMAIN members => members[c] = before[t][c]

\* a completed cycle that turned away one child that was in the snapshot and
\* one that was not
C15_Witness ==
  \E t \in Threads :
    /\ Completed(t)
    /\ Unusable(t) \cap DOMAIN before[t] # {}
    /\ Unusable(t) \ DOMAIN before[t] # {}

(* -------------------------------- C16 ---------------------------------- *)

\* thread t is asking for a guard of the RwLock
Requesting(t) == pc[t] \in {"write", "scan", "remove_member"}

\* thread t holds a guard of the RwLock
Holding(t) == t \in lock.readers \/ lock.writer = t

\* C16 (as claimed): whenever a reconciling thread asks for the RwLock it
\* holds no guard of it, and it holds no guard while it calls the store.
C16_LockPerOperation ==
  \A t \in Threads :
    /\ Requesting(t) => ~Holding(t)
    /\ pc[t] \in {"update_members", "get_children", "update_member", "get_data"}
         => ~Holding(t)

(* -------------------------------- C17 ---------------------------------- *)

\* the snapshot m with every entry of n written over it
Overridden(m, n) ==
  [c \in DOMAIN m \cup DOMAIN n |-> IF c \in DOMAIN n THEN n[c] ELSE m[c]]

\* C17: when the store does not change during a cycle, the snapshot the for
\* loop over the children leaves is the snapshot from before the cycle with
\* the store's alive children written over it, whatever the order in which
\* get_children returned the children.
C17_OrderIndependent ==
  \A t \in Threads :
    (PastChildren(t) /\ Latest(t) /\ epoch[t] = changes)
      => members = Overridden(before[t], AliveView)

\* a completed cycle over two children, the first of which could not be
\* used and the second of which was inserted
C17_Witness ==
  \E t \in Threads :
    /\ Completed(t)
    /\ epoch[t] = changes
    /\ Len(serverset_children[t]) = 2
    /\ serverset_children[t][1] \in Unusable(t)
    /\ serverset_children[t][2] \in AliveSeen(t) \ DOMAIN before[t]

(* -------------------------------- C18 ---------------------------------- *)

\* C18: a reader and a writer never hold the lock together, and while the
\* consumer holds its read guard no insert or remove is under way, so what
\* it reads is the map between two whole operations.
C18_WholeOperations ==
  /\ lock.writer # 0 => lock.readers = {}
  /\ reader = "reading" =>
       /\ Consumer \in lock.readers
       /\ lock.writer = 0
       /\ \A t \in Threads : pc[t] # "insert"

\* the consumer holds its read guard on a map that has some of a running
\* cycle's inserts and lacks the one the cycle is about to make
C18_Witness ==
  \E t \in Threads :
    /\ reader = "reading"
    /\ pc[t] = "write"
    /\ members # before[t]
    /\ insert(members, Child(t), CHOOSE m \in member_opt[t] : TRUE) # members

(* -------------------------------- C19 ---------------------------------- *)

\* C19: every record in the snapshot has the status "ALIVE".
C19_OnlyAlive ==
  \A k \in DOMAIN members : members[k].status = "ALIVE"

\* a completed cycle that decoded a child of the snapshot with another
\* status and left its old record in place
C19_Witness ==
  \E t \in Threads :
    /\ Completed(t)
    /\ NotAliveSeen(t) \cap DOMAIN members # {}

=============================================================================
